---- MODULE Spec2Model ----
(***************************************************************************)
(* Playlist timing pipeline of the Spotify playlist timing analyzer:       *)
(* logic/timing.py, logic/formatting.py, spotify/playlist.py and the call  *)
(* that ui/app.py makes into it.                                           *)
(*                                                                         *)
(* Times are integers in milliseconds.  A wall-clock reading is counted    *)
(* from 2024-03-31 00:00 (civil), so that the window of the model holds    *)
(* the 2024 spring-forward of Europe/Helsinki (day 0, 03:00 -> 04:00) and  *)
(* the 2024 fall-back of Australia/Sydney (day 7, 03:00 -> 02:00).         *)
(***************************************************************************)
EXTENDS Integers, Sequences, FiniteSets, TLC

VARIABLES
    params,              \* the request: raw tracks and timing parameters
    call,                \* entry point that ran last
    outcome,             \* "none", "ok" or the exception that escaped
    cumulative_ms_list,  \* load_playlist_rows: cumulative_ms_list
    approx_dts,          \* load_playlist_rows: approx_dts
    rows,                \* returned TrackRow list
    stats,               \* returned stats dict
    fetch,               \* SpotifyClient: the playlist fetch in progress
    color,               \* logic/colors.py: a duration_color call
    fmt,                 \* logic/formatting.py: a formatter call
    audio,               \* SpotifyClient.get_audio_features in progress
    ui                   \* ui/app.py: widgets, session state and the page

vars == <<params, call, outcome, cumulative_ms_list, approx_dts, rows, stats,
          fetch, color, fmt, audio, ui>>

\* value of a variable that a specification does not use
Idle == "idle"

(***************************************************************************)
(* Bounds of the model.                                                    *)
(***************************************************************************)
MaxTracks == 3

(***************************************************************************)
(* Units.                                                                  *)
(***************************************************************************)
SecondMs == 1000
MinuteMs == 60 * 1000
HourMs == 60 * 60 * 1000
DayMs == 24 * 60 * 60 * 1000

None == "None"

Max(a, b) == IF a >= b THEN a ELSE b
Min(a, b) == IF a <= b THEN a ELSE b

(***************************************************************************)
(* Raw items as the Spotify API returns them.  An item either nests the    *)
(* track under 'track' or is the track itself.                             *)
(***************************************************************************)
ApiTrack(id, name, artists, ms) ==
    [id |-> id, name |-> name, artists |-> artists, duration_ms |-> ms]

Catalog ==
    { [track |-> ApiTrack("a", "Song A", <<[name |-> "X"]>>, 180000)],
      [track |-> ApiTrack("b", "Song B", <<[name |-> "X"], [name |-> "Y"]>>, 200000)],
      [track |-> ApiTrack("d", "Silence", <<>>, 0)],
      ApiTrack("e", "Mix", <<[name |-> "Z"]>>, 3600000) }

TrackDataLists == UNION { [1..n -> Catalog] : n \in 0..MaxTracks }

\* _extract_track_raw
extract_track_raw(track_data) ==
    LET track == IF "track" \in DOMAIN track_data THEN track_data.track ELSE track_data
    IN  [id |-> track.id,
         name |-> track.name,
         artists |-> [k \in 1..Len(track.artists) |-> [name |-> track.artists[k].name]],
         duration_ms |-> track.duration_ms]

(***************************************************************************)
(* Datetimes.  A datetime is its wall-clock reading, and when it is aware  *)
(* the UTC offset of its tzinfo.                                           *)
(***************************************************************************)
Naive(wall) == [wall |-> wall, aware |-> FALSE, utcoffset |-> 0]
Aware(wall, off) == [wall |-> wall, aware |-> TRUE, utcoffset |-> off]
Instant(dt) == dt.wall - dt.utcoffset

\* datetime + timedelta(milliseconds=ms): the wall-clock reading moves, the
\* tzinfo stays as it is
AddMs(dt, ms) == [dt EXCEPT !.wall = @ + ms]

COMMON_TIMEZONES == {"Europe/Helsinki", "Australia/Sydney", "UTC"}

HelsinkiGapStart == 3 * HourMs               \* 2024-03-31 03:00 EET
HelsinkiGapEnd == 4 * HourMs                 \* 2024-03-31 04:00 EEST
SydneyFoldStart == 7 * DayMs + 2 * HourMs    \* 2024-04-07 02:00
SydneyFoldEnd == 7 * DayMs + 3 * HourMs      \* 2024-04-07 03:00

\* tz.localize(naive) with pytz's default is_dst=False: a reading inside the
\* spring-forward gap keeps the standard offset, a reading inside the
\* fall-back fold is taken as standard time.
LocalizeOffset(tz, wall) ==
    CASE tz = "Europe/Helsinki" ->
            IF wall < HelsinkiGapEnd THEN 2 * HourMs ELSE 3 * HourMs
      [] tz = "Australia/Sydney" ->
            IF wall < SydneyFoldStart THEN 11 * HourMs ELSE 10 * HourMs
      [] OTHER -> 0

localize(tz, dt) == Aware(dt.wall, LocalizeOffset(tz, dt.wall))

\* UTC offset the zone has at an instant
OffsetAtInstant(tz, instant) ==
    CASE tz = "Europe/Helsinki" ->
            IF instant < HelsinkiGapStart - 2 * HourMs THEN 2 * HourMs ELSE 3 * HourMs
      [] tz = "Australia/Sydney" ->
            IF instant < SydneyFoldEnd - 11 * HourMs THEN 11 * HourMs ELSE 10 * HourMs
      [] OTHER -> 0

\* aware.astimezone(tz)
astimezone(tz, dt) ==
    LET off == OffsetAtInstant(tz, Instant(dt))
    IN  Aware(Instant(dt) + off, off)

(***************************************************************************)
(* logic/timing.py                                                         *)
(***************************************************************************)
RECURSIVE cumulative_loop(_, _, _)
cumulative_loop(durations_ms, running_total, cumulative) ==
    IF durations_ms = <<>>
    THEN cumulative
    ELSE LET total == running_total + Head(durations_ms)
         IN  cumulative_loop(Tail(durations_ms), total, Append(cumulative, total))

\* compute_cumulative_ms appending each duration instead of the running total
compute_cumulative_ms_no_running_total(durations_ms) == durations_ms

compute_cumulative_ms(durations_ms) == cumulative_loop(durations_ms, 0, <<>>)

\* one iteration of the loop of approx_times
approx_time(start_dt, cumulative, tz) ==
    LET approx_dt == AddMs(start_dt, cumulative)
    IN  IF ~approx_dt.aware
        THEN localize(tz, approx_dt)
        ELSE astimezone(tz, approx_dt)

approx_times(start_dt, cumulative_ms, tz) ==
    [k \in 1..Len(cumulative_ms) |-> approx_time(start_dt, cumulative_ms[k], tz)]

(***************************************************************************)
(* logic/formatting.py.  A formatted string is modelled by the numbers it  *)
(* prints, in the order it prints them.                                    *)
(***************************************************************************)
\* ms_to_mmss wrapping the minutes at 60
ms_to_mmss_wrapped(ms) ==
    LET total_seconds == ms \div SecondMs
    IN  [minutes |-> (total_seconds \div 60) % 60, seconds |-> total_seconds % 60]

\* ms_to_hhmmss taking the minutes from the whole duration
ms_to_hhmmss_total_minutes(ms) ==
    LET total_seconds == ms \div SecondMs
    IN  [hours |-> total_seconds \div 3600,
         minutes |-> total_seconds \div 60,
         seconds |-> total_seconds % 60]

ms_to_mmss(ms) ==
    LET total_seconds == ms \div SecondMs
    IN  [minutes |-> total_seconds \div 60, seconds |-> total_seconds % 60]

ms_to_hhmmss(ms) ==
    LET total_seconds == ms \div SecondMs
    IN  [hours |-> total_seconds \div 3600,
         minutes |-> (total_seconds % 3600) \div 60,
         seconds |-> total_seconds % 60]

\* dt.strftime("%H:%M"): hour and minute of the wall-clock reading
dt_to_hhmm(dt) ==
    [hour |-> (dt.wall % DayMs) \div HourMs,
     minute |-> (dt.wall % HourMs) \div MinuteMs]

\* ", ".join(names): the names with a separator between neighbours
RECURSIVE join_artists(_)
join_artists(artists) ==
    IF artists = <<>> THEN <<>>
    ELSE IF Len(artists) = 1 THEN <<artists[1].name>>
    ELSE <<artists[1].name, ", ">> \o join_artists(Tail(artists))

(***************************************************************************)
(* spotify/playlist.py                                                     *)
(***************************************************************************)
RECURSIVE SeqSum(_)
SeqSum(s) == IF s = <<>> THEN 0 ELSE Head(s) + SeqSum(Tail(s))

RECURSIVE SeqMin(_)
SeqMin(s) == IF Len(s) = 1 THEN s[1] ELSE Min(Head(s), SeqMin(Tail(s)))

RECURSIVE SeqMax(_)
SeqMax(s) == IF Len(s) = 1 THEN s[1] ELSE Max(Head(s), SeqMax(Tail(s)))

\* _compute_playlist_stats reading the durations net of the crossfade trim
compute_playlist_stats_trimmed(tracks) ==
    LET duration_values ==
            [k \in 1..Len(tracks) |->
                Max(0, tracks[k].duration_ms - params.crossover_seconds * SecondMs)]
    IN  [total_tracks |-> Len(tracks),
         total_duration_ms |-> SeqSum(duration_values),
         min_duration_ms |-> IF duration_values # <<>> THEN SeqMin(duration_values) ELSE 0,
         max_duration_ms |-> IF duration_values # <<>> THEN SeqMax(duration_values) ELSE 0]

\* _compute_playlist_stats taking the minimum from a running sentinel, with
\* no default for the empty list
compute_playlist_stats_sentinel(tracks) ==
    LET duration_values == [k \in 1..Len(tracks) |-> tracks[k].duration_ms]
    IN  [total_tracks |-> Len(tracks),
         total_duration_ms |-> SeqSum(duration_values),
         min_duration_ms |-> SeqMin(<<2147483647>> \o duration_values),
         max_duration_ms |-> SeqMax(<<0>> \o duration_values)]

compute_playlist_stats(tracks) ==
    LET duration_values == [k \in 1..Len(tracks) |-> tracks[k].duration_ms]
    IN  [total_tracks |-> Len(tracks),
         total_duration_ms |-> SeqSum(duration_values),
         min_duration_ms |-> IF duration_values # <<>> THEN SeqMin(duration_values) ELSE 0,
         max_duration_ms |-> IF duration_values # <<>> THEN SeqMax(duration_values) ELSE 0]

\* Step 6 with the position of enumerate used as the index
build_row_zero_based(i, track, cumulative_ms, approx_dt) ==
    [index |-> i,
     name |-> track.name,
     artists_display |-> join_artists(track.artists),
     duration_ms |-> track.duration_ms,
     duration_display |-> ms_to_mmss(track.duration_ms),
     cumulative_ms |-> cumulative_ms,
     cumulative_display |-> ms_to_hhmmss(cumulative_ms),
     approx_time_display |-> dt_to_hhmm(approx_dt)]

\* Step 6 of load_playlist_rows for position i of enumerate (0-based)
build_row(i, track, cumulative_ms, approx_dt) ==
    [index |-> i + 1,
     name |-> track.name,
     artists_display |-> join_artists(track.artists),
     duration_ms |-> track.duration_ms,
     duration_display |-> ms_to_mmss(track.duration_ms),
     cumulative_ms |-> cumulative_ms,
     cumulative_display |-> ms_to_hhmmss(cumulative_ms),
     approx_time_display |-> dt_to_hhmm(approx_dt)]

\* load_playlist_rows(playlist_url, start_dt, tz), with the track list the
\* client fetched for playlist_url
load_playlist_rows(track_data_list, start_dt, tz) ==
    LET tracks == [k \in 1..Len(track_data_list) |-> extract_track_raw(track_data_list[k])]
        durations_ms == [k \in 1..Len(tracks) |-> tracks[k].duration_ms]
        cumulative == compute_cumulative_ms(durations_ms)
        dts == approx_times(start_dt, cumulative, tz)
        n == Min(Len(tracks), Min(Len(cumulative), Len(dts)))
    IN  [cumulative_ms_list |-> cumulative,
         approx_dts |-> dts,
         rows |-> [k \in 1..n |-> build_row(k - 1, tracks[k], cumulative[k], dts[k])],
         stats |-> compute_playlist_stats(tracks)]

\* positional parameters load_playlist_rows declares, and positional
\* arguments load_playlist_cached passes to it
DeclaredParameters == 3
PassedArguments == 6

(***************************************************************************)
(* The request: the raw tracks behind the playlist URL and the timing      *)
(* parameters the caller holds (ui/app.py: analysis_context and            *)
(* session_state.selected_song_index).                                     *)
(***************************************************************************)
StartDts ==
    { Naive(6 * DayMs + 20 * HourMs + 30 * MinuteMs),  \* Sat 2024-04-06 20:30
      Naive(2 * HourMs + 59 * MinuteMs),               \* 2024-03-31 02:59
      Naive(7 * DayMs + HourMs + 59 * MinuteMs),       \* 2024-04-07 01:59
      Aware(59 * MinuteMs, 0) }                        \* 2024-03-31 00:59 UTC

CrossoverSeconds == {0, 6}
TimeTargetModes == {"Start Time", "End Time"}
\* Optional[int]: <<>> is None, <<k>> is the index k
NoIndex == <<>>
SongIndexes == {NoIndex} \cup { <<k>> : k \in 0..MaxTracks }

Requests ==
    [track_data_list : TrackDataLists,
     start_dt : StartDts,
     timezone_name : COMMON_TIMEZONES,
     crossover_seconds : CrossoverSeconds,
     time_target_mode : TimeTargetModes,
     selected_song_index : SongIndexes]

Init ==
    /\ params \in Requests
    /\ call = "none"
    /\ outcome = "none"
    /\ cumulative_ms_list = <<>>
    /\ approx_dts = <<>>
    /\ rows = <<>>
    /\ stats = None
    /\ fetch = Idle
    /\ color = Idle
    /\ fmt = Idle
    /\ audio = Idle
    /\ ui = Idle

\* load_playlist_rows called with the three parameters it declares
LoadPlaylistRows ==
    LET r == load_playlist_rows(params.track_data_list, params.start_dt,
                                params.timezone_name)
    IN  /\ call' = "load_playlist_rows"
        /\ outcome' = "ok"
        /\ cumulative_ms_list' = r.cumulative_ms_list
        /\ approx_dts' = r.approx_dts
        /\ rows' = r.rows
        /\ stats' = r.stats
        /\ UNCHANGED <<params, fetch, color, fmt, audio, ui>>

\* load_playlist_cached(playlist_url, start_dt, tz_name, crossover_seconds,
\* time_target_mode, selected_song_index): passes all six on, positionally
LoadPlaylistCached ==
    /\ call' = "load_playlist_cached"
    /\ IF PassedArguments = DeclaredParameters
       THEN LET r == load_playlist_rows(params.track_data_list, params.start_dt,
                                        params.timezone_name)
            IN  /\ outcome' = "ok"
                /\ cumulative_ms_list' = r.cumulative_ms_list
                /\ approx_dts' = r.approx_dts
                /\ rows' = r.rows
                /\ stats' = r.stats
       ELSE /\ outcome' = "TypeError"
            /\ cumulative_ms_list' = <<>>
            /\ approx_dts' = <<>>
            /\ rows' = <<>>
            /\ stats' = None
    /\ UNCHANGED <<params, fetch, color, fmt, audio, ui>>

Next == LoadPlaylistRows \/ LoadPlaylistCached

Spec == Init /\ [][Next]_vars

(***************************************************************************)
(* Vocabulary of the properties: the request as the specification reads    *)
(* it, computed from the raw input and not from the program's results.     *)
(***************************************************************************)
TrackCount == Len(params.track_data_list)

InputTrack(k) ==
    LET item == params.track_data_list[k]
    IN  IF "track" \in DOMAIN item THEN item.track ELSE item

InputDurations == { InputTrack(k).duration_ms : k \in 1..TrackCount }

RECURSIVE FullDurationUpTo(_)
FullDurationUpTo(k) ==
    IF k = 0 THEN 0 ELSE FullDurationUpTo(k - 1) + InputTrack(k).duration_ms

TrimMs == params.crossover_seconds * SecondMs

EffectiveMs(k) == Max(0, InputTrack(k).duration_ms - TrimMs)

RECURSIVE EffectiveUpTo(_)
EffectiveUpTo(k) == IF k = 0 THEN 0 ELSE EffectiveUpTo(k - 1) + EffectiveMs(k)

ForwardFromStart == params.time_target_mode = "Start Time"
BackwardFromTrackEnd == params.time_target_mode = "End Time"

TargetValid ==
    /\ params.selected_song_index # NoIndex
    /\ params.selected_song_index[1] < TrackCount

\* the anchor as a civil time of the configured zone
LocalizedAnchor ==
    IF params.start_dt.aware
    THEN params.start_dt
    ELSE localize(params.timezone_name, params.start_dt)

\* the instant ms of elapsed time after the anchor, rendered in the zone
AnchorPlus(ms) == astimezone(params.timezone_name, AddMs(LocalizedAnchor, ms))

Returned == outcome = "ok"

(***************************************************************************)
(* C1: whenever the timing computation has produced cumulativeMs for a     *)
(* non-empty track list, its final element is the sum of                   *)
(* max(0, durationMs - trimSeconds*1000) over all tracks but the last,     *)
(* plus the full duration of the last track.                               *)
(***************************************************************************)
C1_FinalCumulativeIsTrimmedSum ==
    (Returned /\ TrackCount > 0) =>
        /\ Len(cumulative_ms_list) = TrackCount
        /\ cumulative_ms_list[TrackCount] =
              EffectiveUpTo(TrackCount - 1) + InputTrack(TrackCount).duration_ms

(***************************************************************************)
(* C2: in ForwardFromStart mode every timestamp[i] is the instant of the   *)
(* anchor localized into the configured zone, plus exactly                 *)
(* cumulativeMs[i] milliseconds.                                           *)
(***************************************************************************)
C2_ForwardTimestampIsAnchorPlusCumulative ==
    (Returned /\ ForwardFromStart) =>
        \A i \in 1..Len(approx_dts) :
            Instant(approx_dts[i]) = Instant(LocalizedAnchor) + cumulative_ms_list[i]

(***************************************************************************)
(* C3: in ForwardFromStart mode with a non-empty playlist the first        *)
(* track's timestamp is the anchor itself, and the second track's is the   *)
(* anchor plus the first track's duration minus the crossfade trim.        *)
(***************************************************************************)
C3_FirstTrackStartsAtAnchor ==
    (Returned /\ ForwardFromStart /\ TrackCount > 0) =>
        /\ Len(approx_dts) = TrackCount
        /\ Instant(approx_dts[1]) = Instant(LocalizedAnchor)
        /\ TrackCount > 1 =>
              Instant(approx_dts[2]) =
                  Instant(LocalizedAnchor) + InputTrack(1).duration_ms - TrimMs

(***************************************************************************)
(* C4: in BackwardFromTrackEnd mode with a valid target index t,           *)
(* timestamp[t] is the anchor and every timestamp[i] is the anchor plus    *)
(* cumulativeMs[i] - cumulativeMs[t].                                      *)
(***************************************************************************)
C4_BackwardAnchorsTargetTrack ==
    (Returned /\ BackwardFromTrackEnd /\ TargetValid) =>
        LET t == params.selected_song_index[1] + 1
        IN  /\ Len(approx_dts) = TrackCount
            /\ Instant(approx_dts[t]) = Instant(LocalizedAnchor)
            /\ \A i \in 1..TrackCount :
                  Instant(approx_dts[i]) =
                      Instant(LocalizedAnchor)
                          + (cumulative_ms_list[i] - cumulative_ms_list[t])

(***************************************************************************)
(* C5: a computation in BackwardFromTrackEnd mode whose target index is    *)
(* absent or outside [0, trackCount) fails with InvalidParameters and      *)
(* returns no rows and no stats.                                           *)
(***************************************************************************)
C5_InvalidTargetIsRejected ==
    (call # "none" /\ BackwardFromTrackEnd /\ ~TargetValid) =>
        /\ outcome = "InvalidParameters"
        /\ rows = <<>>
        /\ stats = None

(***************************************************************************)
(* C6: the local time displayed for a track is the local rendering of the  *)
(* instant (localized anchor + cumulativeMs[i] of elapsed time), also      *)
(* when a DST transition of the zone lies between the two.                 *)
(***************************************************************************)
C6_DisplayedTimeFollowsUtcOffset ==
    Returned =>
        \A i \in 1..Len(rows) :
            rows[i].approx_time_display = dt_to_hhmm(AnchorPlus(cumulative_ms_list[i]))

(***************************************************************************)
(* C7: the cumulative_ms values of the returned rows are non-decreasing    *)
(* along the row sequence, for every list of non-negative durations and    *)
(* every crossfade trim.                                                   *)
(***************************************************************************)
C7_CumulativeNonDecreasing ==
    Returned =>
        \A i, j \in 1..Len(rows) :
            i <= j => rows[i].cumulative_ms <= rows[j].cumulative_ms

C7_Witness ==
    /\ Returned
    /\ Len(rows) = MaxTracks
    /\ params.crossover_seconds > 0
    /\ rows[1].cumulative_ms < rows[2].cumulative_ms
    /\ rows[2].cumulative_ms = rows[MaxTracks].cumulative_ms

(***************************************************************************)
(* C8: the returned stats are those of the full, untrimmed durations:      *)
(* total_tracks the track count, total_duration_ms their sum, min and max  *)
(* the smallest and the largest of them, whatever the crossfade trim and   *)
(* the mode; and min_duration_ms <= max_duration_ms with at least one      *)
(* track.                                                                  *)
(***************************************************************************)
C8_StatsFromUntrimmedDurations ==
    Returned =>
        /\ stats.total_tracks = TrackCount
        /\ stats.total_duration_ms = FullDurationUpTo(TrackCount)
        /\ TrackCount > 0 =>
              /\ stats.min_duration_ms \in InputDurations
              /\ stats.max_duration_ms \in InputDurations
              /\ \A d \in InputDurations :
                    stats.min_duration_ms <= d /\ d <= stats.max_duration_ms
              /\ stats.min_duration_ms <= stats.max_duration_ms

C8_Witness ==
    /\ Returned
    /\ TrackCount = MaxTracks
    /\ params.crossover_seconds > 0
    /\ BackwardFromTrackEnd
    /\ 0 < stats.min_duration_ms
    /\ stats.min_duration_ms < stats.max_duration_ms
    /\ stats.total_duration_ms > EffectiveUpTo(TrackCount)

(***************************************************************************)
(* C9: an empty track list is not an error: load_playlist_rows returns an  *)
(* empty row list and stats whose four fields are all 0.                   *)
(***************************************************************************)
C9_EmptyPlaylistYieldsEmptyResult ==
    (call = "load_playlist_rows" /\ TrackCount = 0) =>
        /\ outcome = "ok"
        /\ rows = <<>>
        /\ stats = [total_tracks |-> 0, total_duration_ms |-> 0,
                    min_duration_ms |-> 0, max_duration_ms |-> 0]

C9_Witness ==
    /\ call = "load_playlist_rows"
    /\ TrackCount = 0
    /\ Returned
    /\ stats.total_tracks = 0

(***************************************************************************)
(* C10: the returned rows are one per input track, in the input order:     *)
(* the row at 0-based position k has index k+1 and the name and            *)
(* duration_ms of input track k.                                           *)
(***************************************************************************)
C10_OneRowPerTrackInOrder ==
    Returned =>
        /\ Len(rows) = TrackCount
        /\ \A k \in 0..(TrackCount - 1) :
              /\ rows[k + 1].index = k + 1
              /\ rows[k + 1].name = InputTrack(k + 1).name
              /\ rows[k + 1].duration_ms = InputTrack(k + 1).duration_ms

C10_Witness ==
    /\ Returned
    /\ Len(rows) = MaxTracks
    /\ rows[MaxTracks].index = MaxTracks
    /\ rows[1].name # rows[2].name
    /\ rows[1].duration_ms # rows[MaxTracks].duration_ms

(***************************************************************************)
(* spotify/client.py: parse_playlist_id, get_playlist_meta and             *)
(* get_playlist_tracks under tenacity's retry, as load_playlist_rows       *)
(* calls them (steps 1 and 2), followed by steps 3 to 7.                   *)
(***************************************************************************)
MaxPages == 2

\* stop_after_attempt(3)
StopAfterAttempt == 3

\* what the user typed, by the pattern it matches
PlaylistInputs ==
    { [form |-> "url", id_length |-> 22],    \* https://open.spotify.com/playlist/<id>
      [form |-> "uri", id_length |-> 22],    \* spotify:playlist:<id>
      [form |-> "raw", id_length |-> 22],    \* 22 alphanumeric characters
      [form |-> "raw", id_length |-> 21],
      [form |-> "other", id_length |-> 0] }

\* parse_playlist_id: <<id>> when a pattern matches, <<>> for ValueError
parse_playlist_id(url_or_id) ==
    IF url_or_id.form = "url" THEN <<"id">>
    ELSE IF url_or_id.form = "uri" THEN <<"id">>
    ELSE IF url_or_id.form = "raw" /\ url_or_id.id_length = 22 THEN <<"id">>
    ELSE <<>>

\* results['items'] of one page
Pages ==
    LET a == [track |-> ApiTrack("a", "Song A", <<[name |-> "X"]>>, 180000)]
        e == ApiTrack("e", "Mix", <<[name |-> "Z"]>>, 3600000)
    IN  { <<>>, <<a>>, <<e>>, <<a, e>> }

\* the pages the API serves for the playlist during one attempt; every page
\* but the last has a 'next'
Playlists == UNION { [1..n -> Pages] : n \in 1..MaxPages }

RECURSIVE Flatten(_)
Flatten(pages) == IF pages = <<>> THEN <<>> ELSE Head(pages) \o Flatten(Tail(pages))

ApiResults == {"ok", "SpotifyException", "ConnectionError"}

\* tenacity: retry_if_exception_type(SpotifyException), stop_after_attempt(3),
\* reraise not set: "retry", or the exception that leaves the decorated call
retry_decision_one_more(exception, attempt_number) ==
    IF exception # "SpotifyException" THEN exception
    ELSE IF attempt_number > StopAfterAttempt THEN "RetryError"
    ELSE "retry"

retry_decision(exception, attempt_number) ==
    IF exception # "SpotifyException" THEN exception
    ELSE IF attempt_number >= StopAfterAttempt THEN "RetryError"
    ELSE "retry"

\* tracks = [] at the start of each call of get_playlist_tracks
tracks_kept_across_attempts(previous) == previous

tracks_at_call_start(previous) == <<>>

\* an exception raised in steps 1 and 2 leaves load_playlist_rows: there is
\* no handler in it
load_playlist_rows_swallows(exception) == "ok"

load_playlist_rows_raises(exception) == exception

FetchStart(url) ==
    [pc |-> "parse", url |-> url, attempt |-> 0, meta_attempts |-> 0,
     tracks_attempts |-> 0, pages |-> <<>>, page |-> 0, tracks |-> <<>>,
     failure |-> "none", raised |-> "none"]

FetchRequest ==
    [track_data_list |-> <<>>,
     start_dt |-> Naive(6 * DayMs + 20 * HourMs + 30 * MinuteMs),
     timezone_name |-> "Europe/Helsinki",
     crossover_seconds |-> 6,
     time_target_mode |-> "Start Time",
     selected_song_index |-> NoIndex]

InitFetch ==
    /\ params = FetchRequest
    /\ call = "load_playlist_rows"
    /\ outcome = "none"
    /\ cumulative_ms_list = <<>>
    /\ approx_dts = <<>>
    /\ rows = <<>>
    /\ stats = None
    /\ fetch \in { FetchStart(u) : u \in PlaylistInputs }
    /\ color = Idle
    /\ fmt = Idle
    /\ audio = Idle
    /\ ui = Idle

\* exception leaves the client call (fetch.raised) inside load_playlist_rows
Abort(f, exception) ==
    /\ fetch' = [f EXCEPT !.pc = "done", !.raised = exception]
    /\ outcome' = load_playlist_rows_raises(exception)
    /\ UNCHANGED <<params, cumulative_ms_list, approx_dts, rows, stats>>

\* get_playlist_tracks returned: steps 3 to 7 of load_playlist_rows
Assemble(f) ==
    LET r == load_playlist_rows(f.tracks, params.start_dt, params.timezone_name)
    IN  /\ fetch' = [f EXCEPT !.pc = "done"]
        /\ params' = [params EXCEPT !.track_data_list = f.tracks]
        /\ outcome' = "ok"
        /\ cumulative_ms_list' = r.cumulative_ms_list
        /\ approx_dts' = r.approx_dts
        /\ rows' = r.rows
        /\ stats' = r.stats

\* the attempt of the decorated call failed with exception
AfterFailure(f, exception, first_pc) ==
    LET g == [f EXCEPT !.failure = exception, !.pages = <<>>, !.page = 0]
        d == retry_decision(exception, f.attempt)
    IN  IF d = "retry"
        THEN /\ fetch' = [g EXCEPT !.pc = first_pc, !.attempt = @ + 1]
             /\ UNCHANGED <<params, outcome, cumulative_ms_list, approx_dts, rows, stats>>
        ELSE Abort(g, d)

\* step 1
ParsePlaylistId ==
    /\ fetch.pc = "parse"
    /\ IF parse_playlist_id(fetch.url) = <<>>
       THEN Abort([fetch EXCEPT !.failure = "ValueError"], "ValueError")
       ELSE /\ fetch' = [fetch EXCEPT !.pc = "meta", !.attempt = 1]
            /\ UNCHANGED <<params, outcome, cumulative_ms_list, approx_dts, rows, stats>>
    /\ UNCHANGED <<call, color, fmt, audio, ui>>

\* one attempt of get_playlist_meta
GetPlaylistMeta ==
    /\ fetch.pc = "meta"
    /\ \E result \in ApiResults :
          LET f == [fetch EXCEPT !.meta_attempts = @ + 1]
          IN  IF result = "ok"
              THEN /\ fetch' = [f EXCEPT !.pc = "tracks", !.attempt = 1]
                   /\ UNCHANGED <<params, outcome, cumulative_ms_list, approx_dts,
                                  rows, stats>>
              ELSE AfterFailure(f, result, "meta")
    /\ UNCHANGED <<call, color, fmt, audio, ui>>

\* the page at f.page has been received and its items added
AfterPage(f) ==
    IF f.page < Len(f.pages)
    THEN /\ fetch' = [f EXCEPT !.pc = "next"]
         /\ UNCHANGED <<params, outcome, cumulative_ms_list, approx_dts, rows, stats>>
    ELSE Assemble(f)

\* start of one attempt of get_playlist_tracks: tracks = [] and the first
\* page, client.playlist_tracks(playlist_id)
PlaylistTracks ==
    /\ fetch.pc = "tracks"
    /\ \E pages \in Playlists, result \in ApiResults :
          LET f == [fetch EXCEPT !.tracks_attempts = @ + 1,
                                 !.tracks = tracks_at_call_start(@),
                                 !.pages = pages,
                                 !.page = 0]
          IN  IF result = "ok"
              THEN AfterPage([f EXCEPT !.tracks = @ \o pages[1], !.page = 1])
              ELSE AfterFailure(f, result, "tracks")
    /\ UNCHANGED <<call, color, fmt, audio, ui>>

\* client.next(results) inside the loop of get_playlist_tracks
ClientNext ==
    /\ fetch.pc = "next"
    /\ \E result \in ApiResults :
          IF result = "ok"
          THEN AfterPage([fetch EXCEPT !.tracks = @ \o fetch.pages[fetch.page + 1],
                                       !.page = @ + 1])
          ELSE AfterFailure(fetch, result, "tracks")
    /\ UNCHANGED <<call, color, fmt, audio, ui>>

NextFetch == ParsePlaylistId \/ GetPlaylistMeta \/ PlaylistTracks \/ ClientNext

SpecFetch == InitFetch /\ [][NextFetch]_vars

(***************************************************************************)
(* C11: when the fetch fails (or the playlist identifier is invalid) the   *)
(* whole of load_playlist_rows ends with that error: the caller gets the   *)
(* exception that left the client, no rows and no stats; and rows that are *)
(* returned are never partial, they cover every item of every page.        *)
(***************************************************************************)
C11_FetchFailureAbortsAssembly ==
    /\ fetch.pc # "done" => (outcome = "none" /\ rows = <<>> /\ stats = None)
    /\ (fetch.pc = "done" /\ fetch.raised # "none") =>
          /\ outcome = fetch.raised
          /\ rows = <<>>
          /\ cumulative_ms_list = <<>>
          /\ stats = None
    /\ (fetch.pc = "done" /\ outcome = "ok") =>
          /\ fetch.raised = "none"
          /\ Len(rows) = Len(Flatten(fetch.pages))
          /\ stats.total_tracks = Len(Flatten(fetch.pages))

\* the third attempt of get_playlist_tracks failed on a later page, after
\* items of the first page had been received
C11_Witness ==
    /\ fetch.pc = "done"
    /\ fetch.raised = "RetryError"
    /\ fetch.tracks_attempts = StopAfterAttempt
    /\ fetch.tracks # <<>>
    /\ outcome = "RetryError"
    /\ rows = <<>>

(***************************************************************************)
(* C15: get_playlist_meta and get_playlist_tracks are attempted at most 3  *)
(* times, and a call that fails 3 times with a retryable API error ends    *)
(* with an error; no attempt follows a successful one; and the track list  *)
(* returned is the concatenation, in order, of the pages of the attempt    *)
(* that succeeded, with nothing left from failed attempts.                 *)
(***************************************************************************)
C15_Bounded ==
    /\ fetch.attempt <= StopAfterAttempt
    /\ fetch.meta_attempts <= StopAfterAttempt
    /\ fetch.tracks_attempts <= StopAfterAttempt
    /\ (fetch.pc = "done" /\ fetch.raised = "RetryError") =>
          /\ fetch.failure = "SpotifyException"
          /\ fetch.attempt = StopAfterAttempt
          /\ outcome # "ok"
    /\ fetch.pc = "next" =>
          fetch.tracks = Flatten(SubSeq(fetch.pages, 1, fetch.page))
    /\ (fetch.pc = "done" /\ outcome = "ok") =>
          /\ fetch.tracks = Flatten(fetch.pages)
          /\ params.track_data_list = Flatten(fetch.pages)

C15_StopsAtSuccess ==
    /\ fetch.pc \in {"tracks", "next", "done"} =>
          fetch'.meta_attempts = fetch.meta_attempts
    /\ fetch.pc = "done" => fetch'.tracks_attempts = fetch.tracks_attempts
    /\ (fetch.pc = "meta" /\ fetch'.pc = "meta") =>
          fetch'.failure = "SpotifyException"
    /\ (fetch.pc \in {"tracks", "next"} /\ fetch'.pc = "tracks") =>
          fetch'.failure = "SpotifyException"

C15_BoundedRetryFreshPagination == []C15_Bounded /\ [][C15_StopsAtSuccess]_vars

\* the third attempt succeeded after two failed ones, one of which had
\* already received a page
C15_Witness ==
    /\ fetch.pc = "done"
    /\ outcome = "ok"
    /\ fetch.tracks_attempts = StopAfterAttempt
    /\ fetch.meta_attempts > 1
    /\ Len(fetch.pages) = MaxPages
    /\ Len(fetch.tracks) > 2

(***************************************************************************)
(* logic/colors.py.  The floating-point position (value - min)/(max - min) *)
(* is kept as an exact fraction; mid = (min + max) / 2.0 may be a half, so *)
(* duration_color hands values to linear_interpolate doubled.  A colour    *)
(* string "#rrggbb" is the sequence of its six hexadecimal digits.         *)
(***************************************************************************)
MaxColorMs == 6

\* f"{n:02x}": two digits for 0..255; a minus sign (written 16) and more
\* digits outside that range
RECURSIVE HexDigits(_)
HexDigits(n) == IF n < 16 THEN <<n>> ELSE Append(HexDigits(n \div 16), n % 16)

format_02x(n) ==
    IF n < 0 THEN <<16>> \o HexDigits(-n)
    ELSE IF n < 16 THEN <<0, n>>
    ELSE HexDigits(n)

hex_color(r, g, b) == format_02x(r) \o format_02x(g) \o format_02x(b)

\* int(x) of the fraction num/den, den > 0: rounds toward zero
int_of(num, den) == IF num >= 0 THEN num \div den ELSE -((-num) \div den)

\* one channel of _linear_interpolate at the position num/den
channel(start, end, num, den) == int_of(start * den + (end - start) * num, den)

\* _linear_interpolate without the clamp of the position to [0, 1]
linear_interpolate_unclamped(value, min_val, max_val, start_color, end_color) ==
    IF max_val = min_val
    THEN hex_color((start_color[1] + end_color[1]) \div 2,
                   (start_color[2] + end_color[2]) \div 2,
                   (start_color[3] + end_color[3]) \div 2)
    ELSE LET den == max_val - min_val
             num == value - min_val
         IN  hex_color(channel(start_color[1], end_color[1], num, den),
                       channel(start_color[2], end_color[2], num, den),
                       channel(start_color[3], end_color[3], num, den))

\* _linear_interpolate measuring the position from the end of the range
linear_interpolate_from_end(value, min_val, max_val, start_color, end_color) ==
    IF max_val = min_val
    THEN hex_color((start_color[1] + end_color[1]) \div 2,
                   (start_color[2] + end_color[2]) \div 2,
                   (start_color[3] + end_color[3]) \div 2)
    ELSE LET den == max_val - min_val
             num == Max(0, Min(den, max_val - value))
         IN  hex_color(channel(start_color[1], end_color[1], num, den),
                       channel(start_color[2], end_color[2], num, den),
                       channel(start_color[3], end_color[3], num, den))

linear_interpolate(value, min_val, max_val, start_color, end_color) ==
    IF max_val = min_val
    THEN hex_color((start_color[1] + end_color[1]) \div 2,
                   (start_color[2] + end_color[2]) \div 2,
                   (start_color[3] + end_color[3]) \div 2)
    ELSE LET den == max_val - min_val
             num == Max(0, Min(den, value - min_val))
         IN  hex_color(channel(start_color[1], end_color[1], num, den),
                       channel(start_color[2], end_color[2], num, den),
                       channel(start_color[3], end_color[3], num, den))

green == <<46, 204, 113>>
white == <<255, 255, 255>>
red == <<231, 76, 60>>

duration_color(ms, min_ms, max_ms) ==
    IF max_ms = min_ms
    THEN <<8, 0, 8, 0, 8, 0>>
    ELSE LET mid2 == min_ms + max_ms
         IN  IF 2 * ms <= mid2
             THEN linear_interpolate(2 * ms, 2 * min_ms, mid2, green, white)
             ELSE linear_interpolate(2 * ms, mid2, 2 * max_ms, white, red)

ColorDurations == (0..MaxColorMs) \cup {50, 100, 180000, 200000}

InitColor ==
    /\ params = FetchRequest
    /\ call = "none"
    /\ outcome = "none"
    /\ cumulative_ms_list = <<>>
    /\ approx_dts = <<>>
    /\ rows = <<>>
    /\ stats = None
    /\ fetch = Idle
    /\ color \in [pc : {"call"}, ms : ColorDurations, min_ms : ColorDurations,
                  max_ms : ColorDurations, result : {<<>>}]
    /\ fmt = Idle
    /\ audio = Idle
    /\ ui = Idle

DurationColor ==
    /\ color.pc = "call"
    /\ color' = [color EXCEPT !.pc = "returned",
                              !.result = duration_color(color.ms, color.min_ms,
                                                        color.max_ms)]
    /\ UNCHANGED <<params, call, outcome, cumulative_ms_list, approx_dts, rows,
                   stats, fetch, fmt, audio, ui>>

NextColor == DurationColor

SpecColor == InitColor /\ [][NextColor]_vars

\* "#2ecc71", "#ffffff", "#e74c3c"
PureGreen == <<2, 14, 12, 12, 7, 1>>
PureWhite == <<15, 15, 15, 15, 15, 15>>
PureRed == <<14, 7, 4, 12, 3, 12>>

(***************************************************************************)
(* C12: for min < max, duration_color returns pure green at value = min,   *)
(* pure white at value = (min + max) / 2 and pure red at value = max.      *)
(***************************************************************************)
C12_GradientAnchors ==
    (color.pc = "returned" /\ color.min_ms < color.max_ms) =>
        /\ color.ms = color.min_ms => color.result = PureGreen
        /\ 2 * color.ms = color.min_ms + color.max_ms => color.result = PureWhite
        /\ color.ms = color.max_ms => color.result = PureRed

C12_Witness ==
    /\ color.pc = "returned"
    /\ color.min_ms = 0
    /\ color.max_ms = 100
    /\ color.ms = 50
    /\ color.result = PureWhite

(***************************************************************************)
(* C13: for min < max, duration_color returns for every value below min    *)
(* the colour of min and for every value above max the colour of max, and  *)
(* always a well-formed colour of six hexadecimal digits.                  *)
(***************************************************************************)
C13_OutOfRangeIsClamped ==
    (color.pc = "returned" /\ color.min_ms < color.max_ms) =>
        /\ Len(color.result) = 6
        /\ \A k \in 1..Len(color.result) : color.result[k] \in 0..15
        /\ color.ms < color.min_ms =>
              color.result = duration_color(color.min_ms, color.min_ms, color.max_ms)
        /\ color.ms > color.max_ms =>
              color.result = duration_color(color.max_ms, color.min_ms, color.max_ms)

C13_Witness ==
    /\ color.pc = "returned"
    /\ color.min_ms = 50
    /\ color.max_ms = 100
    /\ color.ms = 180000
    /\ color.result = PureRed

(***************************************************************************)
(* logic/formatting.py: ms_to_mmss and ms_to_hhmmss applied to one         *)
(* non-negative duration.                                                  *)
(***************************************************************************)
MaxFormatMs == 3

\* one call of each formatter on the same duration
format_duration(ms) == [mmss |-> ms_to_mmss(ms), hhmmss |-> ms_to_hhmmss(ms)]

FormatDurations ==
    (0..MaxFormatMs)
    \cup { h * HourMs + m * MinuteMs + s * SecondMs + r :
              h \in {0, 1, 2, 100}, m \in {0, 1, 59}, s \in {0, 1, 59}, r \in {0, 999} }
    \cup {213000, 3661000, 7200000, 125000}

InitFormat ==
    /\ params = FetchRequest
    /\ call = "none"
    /\ outcome = "none"
    /\ cumulative_ms_list = <<>>
    /\ approx_dts = <<>>
    /\ rows = <<>>
    /\ stats = None
    /\ fetch = Idle
    /\ color = Idle
    /\ fmt \in [pc : {"call"}, ms : FormatDurations, result : {<<>>}]
    /\ audio = Idle
    /\ ui = Idle

FormatDuration ==
    /\ fmt.pc = "call"
    /\ fmt' = [fmt EXCEPT !.pc = "returned", !.result = format_duration(fmt.ms)]
    /\ UNCHANGED <<params, call, outcome, cumulative_ms_list, approx_dts, rows,
                   stats, fetch, color, audio, ui>>

NextFormat == FormatDuration

SpecFormat == InitFormat /\ [][NextFormat]_vars

(***************************************************************************)
(* C14: for every non-negative ms the fields the formatters print          *)
(* recompose to floor(ms/1000) seconds: ms_to_mmss prints minutes =        *)
(* floor(s/60), not wrapped, and seconds in 0..59; ms_to_hhmmss prints     *)
(* hours, minutes in 0..59 and seconds in 0..59 with                       *)
(* hours*3600 + minutes*60 + seconds = s.                                  *)
(***************************************************************************)
C14_FieldsRecomposeToSeconds ==
    fmt.pc = "returned" =>
        LET s == fmt.ms \div 1000
            a == fmt.result.mmss
            b == fmt.result.hhmmss
        IN  /\ 1000 * s <= fmt.ms /\ fmt.ms < 1000 * (s + 1)
            /\ a.minutes * 60 + a.seconds = s
            /\ a.minutes >= 0
            /\ a.seconds \in 0..59
            /\ b.hours * 3600 + b.minutes * 60 + b.seconds = s
            /\ b.hours >= 0
            /\ b.minutes \in 0..59
            /\ b.seconds \in 0..59

\* 100 h 59 min 59.999 s: minutes of MM:SS and hours need more than 2 digits
C14_Witness ==
    /\ fmt.pc = "returned"
    /\ fmt.result.mmss.minutes > 99
    /\ fmt.result.mmss.seconds = 59
    /\ fmt.result.hhmmss.hours > 99
    /\ fmt.result.hhmmss.minutes = 59
    /\ fmt.ms % 1000 # 0

(***************************************************************************)
(* spotify/client.py: get_audio_features.  A track id is a positive        *)
(* number, 0 is the empty string; a features dict is "features", a null    *)
(* entry is "None".                                                        *)
(***************************************************************************)
MaxBatches == 2

batch_size == 100

\* input lists: their length and how blanks and repeats are laid out
TrackIdLists ==
    LET lengths == { b * batch_size + r : b \in 0..MaxBatches, r \in {0, 1} }
        distinct(n) == [k \in 1..n |-> k]
        blanks(n) == [k \in 1..n |-> IF k % batch_size = 1 THEN 0 ELSE k]
        blank_batch(n) == [k \in 1..n |-> IF k > batch_size /\ k <= 2 * batch_size
                                          THEN 0 ELSE k]
        repeats(n) == [k \in 1..n |-> ((k - 1) % batch_size) + 1]
    IN  UNION { {distinct(n), blanks(n), blank_batch(n), repeats(n)} : n \in lengths }

\* what self.client.audio_features(batch) does: a list with one entry per id
\* (the second form has a null for the first id), or an exception
BatchResults == {"ok", "ok_first_null", "403", "429", "ConnectionError"}

IsTruthy(tid) == tid # 0

\* [tid for tid in track_ids[i:i + batch_size] if tid]
batch_of(track_ids, i) ==
    SelectSeq(SubSeq(track_ids, i + 1, Min(i + batch_size, Len(track_ids))), IsTruthy)

features_list(batch, result) ==
    [k \in 1..Len(batch) |->
        IF result = "ok_first_null" /\ k = 1 THEN "None" ELSE "features"]

\* for track_id, features in zip(batch, values): features_map[track_id] = features
assign_all(features_map, batch, values) ==
    LET n == Min(Len(batch), Len(values))
        ids == { batch[k] : k \in 1..n }
        last(id) == CHOOSE k \in 1..n :
                        batch[k] = id /\ \A j \in 1..n : batch[j] = id => j <= k
    IN  [id \in DOMAIN features_map \cup ids |->
            IF id \in ids THEN values[last(id)] ELSE features_map[id]]

\* the except clauses of get_audio_features with 403 raised again like the
\* other API errors
on_batch_exception_reraise_403(result) ==
    IF result \in {"403", "429"} THEN "raise" ELSE "mark_none"

\* the except clauses of get_audio_features: "mark_none" or "raise"
on_batch_exception(result) ==
    IF result = "403" THEN "mark_none"
    ELSE IF result = "429" THEN "raise"
    ELSE "mark_none"

InitAudio ==
    /\ params = FetchRequest
    /\ call = "none"
    /\ outcome = "none"
    /\ cumulative_ms_list = <<>>
    /\ approx_dts = <<>>
    /\ rows = <<>>
    /\ stats = None
    /\ fetch = Idle
    /\ color = Idle
    /\ fmt = Idle
    /\ audio \in [pc : {"call"}, track_ids : TrackIdLists, i : {0},
                  features_map : {<<>>}, last_batch : {<<>>},
                  last_result : {"none"}, batches : {0}]
    /\ ui = Idle

\* entry of get_audio_features: the empty input returns {} at once
GetAudioFeatures ==
    /\ audio.pc = "call"
    /\ audio' = [audio EXCEPT !.pc = IF audio.track_ids = <<>> THEN "returned"
                                     ELSE "loop"]
    /\ UNCHANGED <<params, call, outcome, cumulative_ms_list, approx_dts, rows,
                   stats, fetch, color, fmt, ui>>

\* where the loop stands after the iteration at i
AfterBatch(a) ==
    IF a.i + batch_size < Len(a.track_ids)
    THEN [a EXCEPT !.i = @ + batch_size]
    ELSE [a EXCEPT !.i = @ + batch_size, !.pc = "returned"]

\* one iteration of the loop over range(0, len(track_ids), batch_size)
AudioBatch ==
    /\ audio.pc = "loop"
    /\ LET batch == batch_of(audio.track_ids, audio.i)
       IN  IF batch = <<>>
           THEN audio' = AfterBatch([audio EXCEPT !.last_batch = <<>>,
                                                  !.last_result = "skipped"])
           ELSE \E result \in BatchResults :
                  LET a == [audio EXCEPT !.last_batch = batch,
                                         !.last_result = result,
                                         !.batches = @ + 1]
                      nulls == [k \in 1..Len(batch) |-> "None"]
                  IN  IF result \in {"ok", "ok_first_null"}
                      THEN audio' = AfterBatch(
                              [a EXCEPT !.features_map =
                                  assign_all(@, batch, features_list(batch, result))])
                      ELSE IF on_batch_exception(result) = "mark_none"
                      THEN audio' = AfterBatch(
                              [a EXCEPT !.features_map = assign_all(@, batch, nulls)])
                      ELSE audio' = [a EXCEPT !.pc = "raised"]
    /\ UNCHANGED <<params, call, outcome, cumulative_ms_list, approx_dts, rows,
                   stats, fetch, color, fmt, ui>>

NextAudio == GetAudioFeatures \/ AudioBatch

SpecAudio == InitAudio /\ [][NextAudio]_vars

(***************************************************************************)
(* C16: a permission-denied (403) failure of a batch maps every track id   *)
(* of that batch to null and the loop goes on to the following batches;    *)
(* and when get_audio_features returns, the result has an entry for every  *)
(* non-empty input track id.                                               *)
(***************************************************************************)
C16_PermissionDeniedDegradesPerBatch ==
    /\ audio.last_result = "403" =>
          /\ audio.pc \in {"loop", "returned"}
          /\ audio.pc = "loop" <=> audio.i < Len(audio.track_ids)
          /\ \A k \in 1..Len(audio.last_batch) :
                /\ audio.last_batch[k] \in DOMAIN audio.features_map
                /\ audio.features_map[audio.last_batch[k]] = "None"
    /\ audio.pc = "returned" =>
          \A k \in 1..Len(audio.track_ids) :
              audio.track_ids[k] # 0 =>
                  audio.track_ids[k] \in DOMAIN audio.features_map

\* the last batch was denied after an earlier batch had succeeded
C16_Witness ==
    /\ audio.pc = "returned"
    /\ audio.last_result = "403"
    /\ audio.batches > 1
    /\ Len(audio.track_ids) > batch_size
    /\ audio.features_map[audio.track_ids[2]] = "features"
    /\ audio.features_map[audio.track_ids[Len(audio.track_ids)]] = "None"

(***************************************************************************)
(* ui/app.py: main, run again by Streamlit after every widget event.       *)
(* session_state (selected_song_index, analysis_context) outlives a run,   *)
(* the widgets hold what the user last set, everything else is rebuilt.    *)
(***************************************************************************)
MaxUiTracks == 2

\* what the URL box holds, with the number of tracks the playlist has
UiUrls ==
    { [form |-> "blank", id_length |-> 0, tracks |-> 0],
      [form |-> "other", id_length |-> 0, tracks |-> 0] }
    \cup { [form |-> "url", id_length |-> 22, tracks |-> n] : n \in 0..MaxUiTracks }

\* the loader main calls: the one declared in spotify/playlist.py, or the
\* six-parameter one the call site is written for
Loaders == {"three_parameter", "six_parameter"}

\* the six-parameter load_playlist_rows: End Time needs a target index inside
\* the playlist, otherwise one row per track
load_playlist_rows_six_parameter(tracks, time_target_mode, selected_song_index) ==
    IF /\ time_target_mode = "End Time"
       /\ \/ selected_song_index = NoIndex
          \/ selected_song_index[1] >= tracks
    THEN [raised |-> "InvalidParameters", rows |-> 0]
    ELSE [raised |-> "none", rows |-> tracks]

\* load_playlist_cached(ctx[...], ..., selected_song_index) as main calls it
load_playlist_cached(loader, ctx, selected_song_index) ==
    IF loader = "three_parameter" /\ PassedArguments # DeclaredParameters
    THEN [raised |-> "TypeError", rows |-> 0]
    ELSE load_playlist_rows_six_parameter(ctx.playlist_url.tracks,
                                          ctx.time_target_mode, selected_song_index)

\* rows[selected_song_index] without a length check
selected_row(rows_len, selected_song_index) ==
    IF selected_song_index[1] < rows_len THEN "row" ELSE "IndexError"

\* one run of main
main(u, analyze_button) ==
    LET pressed == analyze_button /\ u.playlist_url.form # "blank"
        has_context == u.analysis_context # <<>>
        context == IF pressed
                   THEN <<[playlist_url |-> u.playlist_url,
                           time_target_mode |-> u.time_target_mode]>>
                   ELSE u.analysis_context
        v == [u EXCEPT !.analysis_context = context, !.rows = 0, !.raised = "none"]
    IN  IF ~(pressed \/ has_context)
        THEN [v EXCEPT !.page = IF analyze_button THEN "warning" ELSE "blank"]
        ELSE LET ctx == context[1]
                 r == load_playlist_cached(u.loader, ctx, u.selected_song_index)
             IN  IF parse_playlist_id(ctx.playlist_url) = <<>>
                 THEN [v EXCEPT !.page = "error", !.raised = "ValueError"]
                 ELSE IF r.raised # "none"
                 THEN [v EXCEPT !.page = "error", !.raised = r.raised]
                 ELSE IF r.rows = 0
                 THEN [v EXCEPT !.page = "no_tracks"]
                 ELSE IF u.time_target_mode = "End Time"
                 THEN IF /\ u.selected_song_index # NoIndex
                         /\ selected_row(r.rows, u.selected_song_index) = "IndexError"
                      THEN [v EXCEPT !.page = "End Time", !.rows = r.rows,
                                     !.raised = "IndexError"]
                      ELSE [v EXCEPT !.page = "End Time", !.rows = r.rows]
                 ELSE [v EXCEPT !.page = "Start Time", !.rows = r.rows]

InitUI ==
    /\ params = FetchRequest
    /\ call = "none"
    /\ outcome = "none"
    /\ cumulative_ms_list = <<>>
    /\ approx_dts = <<>>
    /\ rows = <<>>
    /\ stats = None
    /\ fetch = Idle
    /\ color = Idle
    /\ fmt = Idle
    /\ audio = Idle
    /\ \E loader \in Loaders, url \in UiUrls :
          /\ url.form = "url"
          /\ ui = main([loader |-> loader,
                        playlist_url |-> url,
                        time_target_mode |-> "Start Time",
                        selected_song_index |-> NoIndex,
                        analysis_context |-> <<>>,
                        page |-> "blank", rows |-> 0, raised |-> "none"], FALSE)

UIUnchanged ==
    UNCHANGED <<params, call, outcome, cumulative_ms_list, approx_dts, rows,
                stats, fetch, color, fmt, audio>>

\* the user replaces the text of the URL box
EditUrl ==
    /\ \E url \in UiUrls \ {ui.playlist_url} :
          ui' = main([ui EXCEPT !.playlist_url = url], FALSE)
    /\ UIUnchanged

\* the user moves the Time Target Mode radio
SwitchMode ==
    /\ \E mode \in TimeTargetModes \ {ui.time_target_mode} :
          ui' = main([ui EXCEPT !.time_target_mode = mode], FALSE)
    /\ UIUnchanged

\* the user presses Analyze Playlist
Analyze ==
    /\ ui' = main(ui, TRUE)
    /\ UIUnchanged

\* the user presses Select on row i of the End Time table
Select ==
    /\ ui.page = "End Time"
    /\ ui.raised = "none"
    /\ \E i \in 0..(ui.rows - 1) :
          /\ ui.selected_song_index # <<i>>
          /\ ui' = main([ui EXCEPT !.selected_song_index = <<i>>], FALSE)
    /\ UIUnchanged

\* the user presses Clear Selection
ClearSelection ==
    /\ ui.page = "End Time"
    /\ ui.raised = "none"
    /\ ui.selected_song_index # NoIndex
    /\ ui' = main([ui EXCEPT !.selected_song_index = NoIndex], FALSE)
    /\ UIUnchanged

NextUI == EditUrl \/ SwitchMode \/ Analyze \/ Select \/ ClearSelection

SpecUI == InitUI /\ [][NextUI]_vars

====
